---- MODULE Spec2Model ----
(***************************************************************************)
(* Model of the BitcoinD actor of src/src/bitcoind.rs: the mailbox loop    *)
(* (run), the message dispatcher (handle_message) with its handlers, the   *)
(* wallet bootstrap (connect), the auto-block worker and the send-pacing   *)
(* engine.  The RPC backend is an environment: every RPC call's outcome is *)
(* drawn from the outcomes the call can have.                              *)
(***************************************************************************)
EXTENDS Integers, Sequences, FiniteSets, TLC

\* ---------------------------------------------------------------- bounds
\* Messages the mailbox holds at once.
MaxMailbox == 1
\* Blocks the auto-block workers mine over a run.
MaxBlocks == 2
\* Iterations of one handler's loop (blocks generated, payments sent).
MaxBatch == 2
\* Commands the controller sends over a run.
MaxCommands == 4
\* get_random_tx_count is sampled for send in 0..MaxSend, block in 0..MaxRate
MaxSend == 3
MaxRate == 10

\* ------------------------------------------------------- program constants
WALLET_NAME == "regtest"
MULTIPLIER == 10000
MAX_TX_PER_BLOCK == 10000

\* ------------------------------------------------------------ Option<T>
\* Option<T>: None is the empty tuple, Some(v) the one-element tuple.
None == <<>>
Some(v) == <<v>>
IsSome(o) == o # <<>>
Unwrap(o) == o[1]

\* ------------------------------------------------------------------ u32
\* A u32 is kept as two 16-bit limbs <<hi, lo>>, value hi * 2^16 + lo.
Limb == 2 ^ 16
U32(hi, lo) == <<hi, lo>>
U32Max == U32(Limb - 1, Limb - 1)
Lt32(a, b) == a[1] < b[1] \/ (a[1] = b[1] /\ a[2] < b[2])
\* a + k in u32 arithmetic: the wrapped sum, and whether it overflowed.
Add32(a, k) ==
    LET lo == a[2] + k
        hi == a[1] + (lo \div Limb)
    IN  [value |-> U32(hi % Limb, lo % Limb), overflow |-> hi >= Limb]
\* The indices of the Rust range start..end (empty when start >= end).
IndexRange(start, end) ==
    IF ~Lt32(start, end) THEN <<>>
    ELSE [i \in 1..((end[1] - start[1]) * Limb + end[2] - start[2])
            |-> Add32(start, i - 1).value]

\* ------------------------------------------------------------- messages
GenerateClass == {"Generate", "GenerateToSelf", "GenerateToAddress", "GenerateToDescriptor"}
Ev(type, args) == [type |-> type, args |-> args]
SendMessage(prefix, e) == Ev("SendMessage", <<prefix, e>>)
Bool(b) == IF b THEN "true" ELSE "false"
Connected(b) == Ev("Connected", <<Bool(b)>>)
GenerateResponse(b) == Ev("GenerateResponse", <<Bool(b)>>)
SendResponse(b) == Ev("SendResponse", <<Bool(b)>>)

Ok == [ok |-> TRUE, err |-> "-"]
Err(e) == [ok |-> FALSE, err |-> e]

\* ------------------------------------------------------ the RPC backend
LoadOutcomes == {"ok", "rpc-18", "rpc-35", "rpc-4", "transport"}
\* The outcomes the environment chooses while one message is handled.
DefaultEnv ==
    [new_client |-> TRUE, new_wallet |-> TRUE, load |-> "ok", create |-> TRUE,
     settxfee |-> TRUE, tip |-> TRUE, bal |-> TRUE, new_addr |-> TRUE,
     fail_at |-> 0, r |-> 0, amounts |-> <<>>]

\* A handle as Client::new builds it: the url (address, wallet path) and the auth.
Client(address, wallet, au) == [address |-> address, wallet |-> wallet, auth |-> au]

\* ------------------------------------------------- handler bookkeeping
\* What a handler has done so far: the actor's fields, the events passed to
\* send_to_gui and the RPC calls issued (with their results), in order;
\* whether it panicked; the typed result of its fallible operation; the
\* cancellation channel it created and the channel it posted Stop to.
Ctx(self) ==
    [self |-> self, events |-> <<>>, rpcs |-> <<>>, panicked |-> FALSE, res |-> Ok,
     opened |-> None, signal |-> None, tx_count |-> None]
send_to_gui(ctx, ev) == [ctx EXCEPT !.events = Append(@, ev)]
Call(name, result) == [call |-> name, result |-> result]
Rpc(ctx, call) == [ctx EXCEPT !.rpcs = Append(@, call)]
Outcome(b) == IF b THEN "ok" ELSE "err"
Panic(ctx) == [ctx EXCEPT !.panicked = TRUE]
Result(ctx, res) == [ctx EXCEPT !.res = res]

is_connected(self) == IsSome(self.client)

recovery_ignores_any_code(code) ==
    IF code = "rpc-18" THEN "create" ELSE "ignore"

recovery_ignores_18(code) ==
    IF code = "rpc-18" \/ code = "rpc-35" THEN "ignore" ELSE "fatal"

recovery_creates_on_35(code) ==
    IF code = "rpc-18" \/ code = "rpc-35" THEN "create" ELSE "fatal"

\* What connect() does with a load_wallet error: -18 (no such wallet) creates
\* the wallet, -35 (already loaded) is ignored, any other error is returned.
recovery(code) ==
    IF code = "rpc-18" THEN "create"
    ELSE IF code = "rpc-35" THEN "ignore"
    ELSE "fatal"

\* connect(): both handles on success.  rpcs lists the calls made, Client::new
\* included.
connect(self, env) ==
    IF IsSome(self.address) /\ IsSome(self.auth) THEN
        LET address == Unwrap(self.address)
            au == Unwrap(self.auth)
            client == Client(address, None, au)
            wallet_client == Client(address, Some(WALLET_NAME), au)
            news == <<Call("Client::new", Outcome(env.new_client)),
                      Call("Client::new", Outcome(env.new_wallet))>>
            load == news \o <<Call("load_wallet", env.load)>>
            done(res, calls) ==
                [res |-> res, client |-> client, wallet_client |-> wallet_client,
                 rpcs |-> calls]
            settxfee(calls) ==
                done(IF env.settxfee THEN Ok ELSE Err("Rpc"),
                     calls \o <<Call("settxfee", Outcome(env.settxfee))>>)
        IN  IF ~env.new_wallet THEN done(Err("Rpc"), news)
            ELSE IF ~env.new_client THEN done(Err("Rpc"), news)
            ELSE IF env.load = "ok" THEN done(Ok, load)
            ELSE IF recovery(env.load) = "create" THEN
                IF ~env.create
                THEN done(Err("Rpc"), load \o <<Call("create_wallet", "err")>>)
                ELSE settxfee(load \o <<Call("create_wallet", "ok")>>)
            ELSE IF recovery(env.load) = "ignore" THEN settxfee(load)
            ELSE done(Err("Rpc"), load)
    ELSE [res |-> Err("CredentialMissing"), client |-> None, wallet_client |-> None,
          rpcs |-> <<>>]

disconnect_drops_miner(ctx) ==
    send_to_gui(
        [ctx EXCEPT !.self.client = None, !.self.wallet_client = None,
                    !.self.auth = None, !.self.auto_block_sender = None],
        Connected(FALSE))

disconnect(ctx) ==
    send_to_gui(
        [ctx EXCEPT !.self.client = None, !.self.wallet_client = None,
                    !.self.auth = None],
        Connected(FALSE))

update_data_tip_only(ctx, env) ==
    IF IsSome(ctx.self.client)
    THEN LET c == Rpc(ctx, Call("get_blockchain_info", Outcome(env.tip)))
         IN  IF env.tip THEN send_to_gui(c, Ev("UpdateBlockchainTip", <<>>)) ELSE c
    ELSE ctx

\* update_data(): get_block_height() and get_balance(), each forwarded when Ok.
update_data(ctx, env) ==
    LET c1 == IF IsSome(ctx.self.client)
              THEN LET c == Rpc(ctx, Call("get_blockchain_info", Outcome(env.tip)))
                   IN  IF env.tip THEN send_to_gui(c, Ev("UpdateBlockchainTip", <<>>))
                       ELSE c
              ELSE ctx
    IN  IF IsSome(c1.self.wallet_client)
        THEN LET c == Rpc(c1, Call("get_balance", Outcome(env.bal)))
             IN  IF env.bal THEN send_to_gui(c, Ev("UpdateBalance", <<>>)) ELSE c
        ELSE c1

handle_connect_silent_success(ctx, env) ==
    IF ~is_connected(ctx.self) THEN
        LET r == connect(ctx.self, env)
            c1 == [ctx EXCEPT !.rpcs = @ \o r.rpcs, !.res = r.res]
        IN  IF r.res.ok
            THEN [c1 EXCEPT !.self.client = Some(r.client),
                            !.self.wallet_client = Some(r.wallet_client)]
            ELSE send_to_gui(
                     send_to_gui(c1, SendMessage("Fail to connect: ", r.res.err)),
                     Connected(FALSE))
    ELSE send_to_gui(send_to_gui(ctx, SendMessage("Already connected!", "")),
                     Connected(TRUE))

handle_connect_reconnects(ctx, env) ==
    LET r == connect(ctx.self, env)
        c1 == [ctx EXCEPT !.rpcs = @ \o r.rpcs, !.res = r.res]
    IN  IF r.res.ok
        THEN send_to_gui(
                 [c1 EXCEPT !.self.client = Some(r.client),
                            !.self.wallet_client = Some(r.wallet_client)],
                 Connected(TRUE))
        ELSE send_to_gui(
                 send_to_gui(c1, SendMessage("Fail to connect: ", r.res.err)),
                 Connected(FALSE))

handle_connect_reports_success(ctx, env) ==
    IF ~is_connected(ctx.self) THEN
        LET r == connect(ctx.self, env)
            c1 == [ctx EXCEPT !.rpcs = @ \o r.rpcs, !.res = r.res]
        IN  IF r.res.ok
            THEN send_to_gui(
                     [c1 EXCEPT !.self.client = Some(r.client),
                                !.self.wallet_client = Some(r.wallet_client)],
                     Connected(TRUE))
            ELSE send_to_gui(
                     send_to_gui(c1, SendMessage("Fail to connect: ", r.res.err)),
                     Connected(TRUE))
    ELSE send_to_gui(send_to_gui(ctx, SendMessage("Already connected!", "")),
                     Connected(TRUE))

handle_connect(ctx, env) ==
    IF ~is_connected(ctx.self) THEN
        LET r == connect(ctx.self, env)
            c1 == [ctx EXCEPT !.rpcs = @ \o r.rpcs, !.res = r.res]
        IN  IF r.res.ok
            THEN send_to_gui(
                     [c1 EXCEPT !.self.client = Some(r.client),
                                !.self.wallet_client = Some(r.wallet_client)],
                     Connected(TRUE))
            ELSE send_to_gui(
                     send_to_gui(c1, SendMessage("Fail to connect: ", r.res.err)),
                     Connected(FALSE))
    ELSE send_to_gui(send_to_gui(ctx, SendMessage("Already connected!", "")),
                     Connected(TRUE))

\* ------------------------------------------------------------ generating
\* A handler step's result: the bookkeeping so far and the typed result.
Ret(ctx, res) == [ctx |-> ctx, res |-> res]

\* generate_to_address(): n counts the mining/payment RPCs of this handler;
\* the environment fails the one numbered env.fail_at.
generate_to_address(ctx, env, n) ==
    IF IsSome(ctx.self.client)
    THEN Ret(Rpc(ctx, Call("generate_to_address", Outcome(env.fail_at # n))),
             IF env.fail_at # n THEN Ok ELSE Err("Rpc"))
    ELSE Ret(ctx, Err("NotConnected"))

generate(ctx, env) == generate_to_address(ctx, env, 1)

get_new_address(ctx, env) ==
    IF IsSome(ctx.self.wallet_client)
    THEN Ret(Rpc(ctx, Call("get_new_address", Outcome(env.new_addr))),
             IF env.new_addr THEN Ok ELSE Err("Rpc"))
    ELSE Ret(ctx, Err("NotConnected"))

generate_to_self(ctx, env) ==
    LET a == get_new_address(ctx, env)
    IN  IF a.res.ok THEN generate_to_address(a.ctx, env, 1) ELSE a

\* ------------------------------------------------------------ descriptors
\* Descriptor texts: a well-formed multipath descriptor (receive path 0, change
\* path 1) and a text Descriptor::from_str rejects.
Descriptors == {"wsh(pk(tpub/<0;1>/*))", "garbage"}
from_str_ok(descriptor) == descriptor = "wsh(pk(tpub/<0;1>/*))"
into_single_descriptors(descriptor) == <<0, 1>>
\* A derivation index is out of range from 2^31 on (hardened).
derivable(index) == index[1] < Limb \div 2

address_from_descriptor_last_component(descriptor, index) ==
    LET singles == into_single_descriptors(descriptor)
    IN  IF singles = <<>> THEN [res |-> Err("ParseDescriptor"), address |-> None]
        ELSE IF ~derivable(index) THEN [res |-> Err("DeriveDescriptor"), address |-> None]
        ELSE [res |-> Ok,
              address |-> Some([descriptor |-> descriptor, path |-> singles[Len(singles)],
                                index |-> index])]

address_from_descriptor(descriptor, index) ==
    LET singles == into_single_descriptors(descriptor)
    IN  IF singles = <<>> THEN [res |-> Err("ParseDescriptor"), address |-> None]
        ELSE IF ~derivable(index) THEN [res |-> Err("DeriveDescriptor"), address |-> None]
        ELSE [res |-> Ok,
              address |-> Some([descriptor |-> descriptor, path |-> singles[1],
                                index |-> index])]

RECURSIVE generate_each(_, _, _, _, _)
\* The loop of generate_to_descriptor over indices[i..].
generate_each(ctx, env, descriptor, indices, i) ==
    IF i > Len(indices) THEN Ret(ctx, Ok)
    ELSE LET a == address_from_descriptor(descriptor, indices[i])
         IN  IF ~a.res.ok THEN Ret(ctx, a.res)
             ELSE LET g == generate_to_address(ctx, env, i)
                  IN  IF ~g.res.ok THEN g
                      ELSE generate_each(
                               send_to_gui(g.ctx, Ev("IncrementGenerateDescriptorIndex", <<>>)),
                               env, descriptor, indices, i + 1)

\* build = "debug" checks arithmetic overflow (a panic); "release" wraps.
generate_to_descriptor(ctx, env, params, build) ==
    LET end == Add32(params.start_index, params.blocks)
    IN  IF end.overflow /\ build = "debug" THEN Ret(Panic(ctx), Ok)
        ELSE IF ~from_str_ok(params.descriptor) THEN Ret(ctx, Err("ParseDescriptor"))
        ELSE generate_each(ctx, env, params.descriptor,
                           IndexRange(params.start_index, end.value), 1)

\* --------------------------------------------------------------- sending
\* random_amount(): gen_range(min..max) panics on an empty range; otherwise
\* the draw d picks one of the max - min values of [min, max).
random_amount(min, max, d) ==
    IF min >= max THEN [panicked |-> TRUE, amount |-> 0]
    ELSE [panicked |-> FALSE, amount |-> min + (d % (max - min))]

send_to_address(ctx, env, params, n) ==
    IF IsSome(ctx.self.wallet_client)
    THEN Ret(Rpc(ctx, [call |-> "send_to_address", result |-> Outcome(env.fail_at # n),
                       address |-> params.address, amount |-> params.amount]),
             IF env.fail_at # n THEN Ok ELSE Err("Rpc"))
    ELSE Ret(ctx, Err("NotConnected"))

RECURSIVE send_each(_, _, _, _, _, _, _)
\* The loop of send_to_descriptor over indices[i..].
send_each(ctx, env, descriptor, min, max, indices, i) ==
    IF i > Len(indices) THEN Ret(ctx, Ok)
    ELSE LET amount == random_amount(min, max, env.amounts[i])
             a == address_from_descriptor(descriptor, indices[i])
         IN  IF amount.panicked THEN Ret(Panic(ctx), Ok)
             ELSE IF ~a.res.ok THEN Ret(ctx, a.res)
             ELSE LET s == send_to_address(ctx, env,
                               [amount |-> amount.amount, address |-> Unwrap(a.address)], i)
                  IN  IF ~s.res.ok THEN s
                      ELSE send_each(
                               send_to_gui(s.ctx, Ev("IncrementSendDescriptorIndex", <<>>)),
                               env, descriptor, min, max, indices, i + 1)

send_to_descriptor(ctx, env, params, build) ==
    LET end == Add32(params.start_index, params.count)
    IN  IF end.overflow /\ build = "debug" THEN Ret(Panic(ctx), Ok)
        ELSE IF ~from_str_ok(params.descriptor) THEN Ret(ctx, Err("DeriveDescriptor"))
        ELSE send_each(ctx, env, params.descriptor, params.amount_min, params.amount_max,
                       IndexRange(params.start_index, end.value), 1)

\* ---------------------------------------------------------------- pacing
\* ((send / block).min(MAX_TX_PER_BLOCK) * MULTIPLIER) as i32: the cast
\* truncates; x / 0 is infinite (or NaN), which min() turns into the cap.
\* The f64 product equals the exact quotient for every send < 43.
send_per_block(send, block) ==
    IF block = 0 \/ send >= MAX_TX_PER_BLOCK * block THEN MAX_TX_PER_BLOCK * MULTIPLIER
    ELSE (send * MULTIPLIER) \div block

\* The range the random draw r of get_random_tx_count comes from.
draw_bound(send, block) ==
    IF send_per_block(send, block) <= MULTIPLIER THEN MULTIPLIER
    ELSE send_per_block(send, block)

get_random_tx_count_inclusive(send, block, r) ==
    IF send_per_block(send, block) <= MULTIPLIER
    THEN IF r >= send_per_block(send, block) THEN 1 ELSE 0
    ELSE IF r >= MULTIPLIER THEN r \div MULTIPLIER ELSE 0

get_random_tx_count_unscaled(send, block, r) ==
    IF send_per_block(send, block) <= MULTIPLIER
    THEN IF r > send_per_block(send, block) THEN 1 ELSE 0
    ELSE IF r > MULTIPLIER THEN r ELSE 0

get_random_tx_count(send, block, r) ==
    IF send_per_block(send, block) <= MULTIPLIER
    THEN IF r > send_per_block(send, block) THEN 1 ELSE 0
    ELSE IF r > MULTIPLIER THEN r \div MULTIPLIER ELSE 0

RECURSIVE pay_each(_, _, _, _, _, _, _)
\* The loop of maybe_send_every_block over indices[i..].
pay_each(ctx, env, descriptor, min, max, indices, i) ==
    IF i > Len(indices) THEN Ret(ctx, Ok)
    ELSE LET amount == random_amount(min, max, env.amounts[i])
             a == address_from_descriptor(descriptor, indices[i])
         IN  IF amount.panicked THEN Ret(Panic(ctx), Ok)
             ELSE IF ~from_str_ok(descriptor) THEN Ret(ctx, Err("ParseDescriptor"))
             ELSE IF ~a.res.ok THEN Ret(ctx, a.res)
             ELSE LET s == send_to_address(ctx, env,
                               [amount |-> amount.amount, address |-> Unwrap(a.address)], i)
                  IN  IF ~s.res.ok THEN s
                      ELSE pay_each(s.ctx, env, descriptor, min, max, indices, i + 1)

maybe_send_every_block_resumes_at_failure(ctx, env, build) ==
    IF IsSome(ctx.self.send_every_block) THEN
        LET params == Unwrap(ctx.self.send_every_block)
            tx_count == get_random_tx_count(params.count, params.blocks, env.r)
            start == IF IsSome(params.actual_index) THEN Unwrap(params.actual_index)
                     ELSE params.start_index
            end == Add32(start, tx_count)
            c1 == [ctx EXCEPT !.self.send_every_block =
                                  Some([params EXCEPT !.actual_index = Some(end.value)]),
                              !.tx_count = Some(tx_count)]
            r == pay_each(c1, env, params.descriptor, params.amount_min,
                          params.amount_max, IndexRange(start, end.value), 1)
            accepted == Len(SelectSeq(r.ctx.rpcs,
                                LAMBDA c : c.call = "send_to_address" /\ c.result = "ok"))
        IN  IF end.overflow /\ build = "debug" THEN Ret(Panic(ctx), Ok)
            ELSE IF r.res.ok \/ r.ctx.panicked THEN r
            ELSE Ret([r.ctx EXCEPT !.self.send_every_block =
                         Some([params EXCEPT
                                  !.actual_index = Some(Add32(start, accepted).value)])],
                     r.res)
    ELSE Ret(ctx, Ok)

maybe_send_every_block_default_cursor(ctx, env, build) ==
    IF IsSome(ctx.self.send_every_block) THEN
        LET params == Unwrap(ctx.self.send_every_block)
            tx_count == get_random_tx_count(params.count, params.blocks, env.r)
            start == IF IsSome(params.actual_index) THEN Unwrap(params.actual_index)
                     ELSE U32(0, 0)
            end == Add32(start, tx_count)
            c1 == [ctx EXCEPT !.self.send_every_block =
                                  Some([params EXCEPT !.actual_index = Some(end.value)]),
                              !.tx_count = Some(tx_count)]
        IN  IF end.overflow /\ build = "debug" THEN Ret(Panic(ctx), Ok)
            ELSE pay_each(c1, env, params.descriptor, params.amount_min,
                          params.amount_max, IndexRange(start, end.value), 1)
    ELSE Ret(ctx, Ok)

maybe_send_every_block(ctx, env, build) ==
    IF IsSome(ctx.self.send_every_block) THEN
        LET params == Unwrap(ctx.self.send_every_block)
            tx_count == get_random_tx_count(params.count, params.blocks, env.r)
            start == IF IsSome(params.actual_index) THEN Unwrap(params.actual_index)
                     ELSE params.start_index
            end == Add32(start, tx_count)
            c1 == [ctx EXCEPT !.self.send_every_block =
                                  Some([params EXCEPT !.actual_index = Some(end.value)]),
                              !.tx_count = Some(tx_count)]
        IN  IF end.overflow /\ build = "debug" THEN Ret(Panic(ctx), Ok)
            ELSE pay_each(c1, env, params.descriptor, params.amount_min,
                          params.amount_max, IndexRange(start, end.value), 1)
    ELSE Ret(ctx, Ok)

\* ------------------------------------------------------------ auto-block
start_auto_block_shares_handle(ctx, env, id) ==
    IF is_connected(ctx.self)
    THEN Ret([ctx EXCEPT !.self.auto_block_sender = Some(id),
                         !.opened = Some([pc |-> "poll", stops |-> 0,
                                          client |-> ctx.self.client])],
             Ok)
    ELSE Ret(ctx, Ok)

\* start_auto_block(): id names the cancellation channel it creates.  The
\* sender is registered before connect(); when connect() fails the receiver is
\* dropped with no worker spawned ("norx"), otherwise the worker owns it.
start_auto_block(ctx, env, id) ==
    IF is_connected(ctx.self) THEN
        LET c1 == [ctx EXCEPT !.self.auto_block_sender = Some(id)]
            r == connect(c1.self, env)
            c2 == [c1 EXCEPT !.rpcs = @ \o r.rpcs]
        IN  IF ~r.res.ok
            THEN Ret([c2 EXCEPT !.opened = Some([pc |-> "norx", stops |-> 0,
                                                 client |-> None])],
                     r.res)
            ELSE Ret([c2 EXCEPT !.opened = Some([pc |-> "poll", stops |-> 0,
                                                 client |-> Some(r.client)])],
                     Ok)
    ELSE Ret(ctx, Ok)

stop_auto_block_announces(ctx) ==
    IF IsSome(ctx.self.auto_block_sender)
    THEN [ctx EXCEPT !.signal = ctx.self.auto_block_sender]
    ELSE send_to_gui(ctx, Ev("MinerStopped", <<>>))

stop_auto_block(ctx) ==
    IF IsSome(ctx.self.auto_block_sender)
    THEN [ctx EXCEPT !.signal = ctx.self.auto_block_sender]
    ELSE ctx

\* ------------------------------------------------------------ dispatcher
generate_arm_gate_held(r, env) ==
    IF r.ctx.panicked THEN r.ctx
    ELSE LET c1 == IF ~r.res.ok
                   THEN send_to_gui(send_to_gui(r.ctx, SendMessage("", r.res.err)),
                                    GenerateResponse(FALSE))
                   ELSE send_to_gui(r.ctx, GenerateResponse(TRUE))
             c2 == update_data(c1, env)
         IN  [c2 EXCEPT !.self.mining_busy = r.res.ok, !.res = r.res]

generate_arm_gate_stuck(r, env) ==
    IF r.ctx.panicked THEN r.ctx
    ELSE IF ~r.res.ok
    THEN update_data(
             send_to_gui(send_to_gui(Result(r.ctx, r.res), SendMessage("", r.res.err)),
                         GenerateResponse(FALSE)),
             env)
    ELSE [update_data(send_to_gui(r.ctx, GenerateResponse(TRUE)), env)
             EXCEPT !.self.mining_busy = FALSE]

generate_arm_advances_cursor(r, env) ==
    IF r.ctx.panicked THEN r.ctx
    ELSE LET c1 == IF ~r.res.ok
                   THEN send_to_gui(send_to_gui(r.ctx, SendMessage("", r.res.err)),
                                    GenerateResponse(FALSE))
                   ELSE send_to_gui(r.ctx, GenerateResponse(TRUE))
             c2 == update_data(c1, env)
             c3 == IF IsSome(c2.self.send_every_block)
                   THEN LET params == Unwrap(c2.self.send_every_block)
                            start == IF IsSome(params.actual_index)
                                     THEN Unwrap(params.actual_index)
                                     ELSE params.start_index
                        IN  [c2 EXCEPT !.self.send_every_block =
                                Some([params EXCEPT
                                         !.actual_index = Some(Add32(start, 1).value)])]
                   ELSE c2
         IN  [c3 EXCEPT !.self.mining_busy = FALSE, !.res = r.res]

\* The body shared by the four generate arms once r, the handler's result
\* with the gate set, is known.
generate_arm(r, env) ==
    IF r.ctx.panicked THEN r.ctx
    ELSE LET c1 == IF ~r.res.ok
                   THEN send_to_gui(send_to_gui(r.ctx, SendMessage("", r.res.err)),
                                    GenerateResponse(FALSE))
                   ELSE send_to_gui(r.ctx, GenerateResponse(TRUE))
             c2 == update_data(c1, env)
         IN  [c2 EXCEPT !.self.mining_busy = FALSE, !.res = r.res]

send_arm_no_diagnostic(r) ==
    IF r.ctx.panicked THEN r.ctx
    ELSE IF ~r.res.ok THEN send_to_gui(Result(r.ctx, r.res), SendResponse(FALSE))
    ELSE send_to_gui(r.ctx, SendResponse(TRUE))

send_arm(r) ==
    IF r.ctx.panicked THEN r.ctx
    ELSE IF ~r.res.ok
    THEN send_to_gui(send_to_gui(Result(r.ctx, r.res), SendMessage("", r.res.err)),
                     SendResponse(FALSE))
    ELSE send_to_gui(r.ctx, SendResponse(TRUE))

\* handle_message(): id is the name a cancellation channel created here gets.
handle_message(ctx, msg, env, build, id) ==
    LET busy == [ctx EXCEPT !.self.mining_busy = TRUE]
    IN  CASE msg.type = "SetCredentials" ->
                 [ctx EXCEPT !.self.address = Some(msg.address),
                             !.self.auth = Some(msg.auth)]
          [] msg.type = "Connect" -> update_data(handle_connect(ctx, env), env)
          [] msg.type = "Disconnect" ->
                 IF is_connected(ctx.self) THEN disconnect(ctx) ELSE ctx
          [] msg.type = "GetNewAddress" ->
                 LET a == get_new_address(ctx, env)
                 IN  IF a.res.ok THEN send_to_gui(a.ctx, Ev("NewAddress", <<>>))
                     ELSE send_to_gui(Result(a.ctx, a.res),
                                      SendMessage("Fail to get new address: ", a.res.err))
          [] msg.type = "Generate" /\ ~ctx.self.mining_busy ->
                 generate_arm(generate(busy, env), env)
          [] msg.type = "GenerateToSelf" /\ ~ctx.self.mining_busy ->
                 generate_arm(generate_to_self(busy, env), env)
          [] msg.type = "GenerateToAddress" /\ ~ctx.self.mining_busy ->
                 generate_arm(generate_to_address(busy, env, 1), env)
          [] msg.type = "GenerateToDescriptor" /\ ~ctx.self.mining_busy ->
                 generate_arm(generate_to_descriptor(busy, env, msg, build), env)
          [] msg.type = "SendToAddress" -> send_arm(send_to_address(ctx, env, msg, 1))
          [] msg.type = "SendToDescriptor" ->
                 send_arm(send_to_descriptor(ctx, env, msg, build))
          [] msg.type = "BlockMined" ->
                 LET r == maybe_send_every_block(ctx, env, build)
                 IN  IF r.ctx.panicked THEN r.ctx
                     ELSE update_data(
                              IF ~r.res.ok
                              THEN send_to_gui(Result(r.ctx, r.res),
                                       SendMessage("maybe_send_every_block(): ", r.res.err))
                              ELSE r.ctx,
                              env)
          [] msg.type = "MinerStopped" ->
                 send_to_gui([ctx EXCEPT !.self.auto_block_sender = None],
                             Ev("MinerStopped", <<>>))
          [] msg.type = "BatchSent" -> update_data(ctx, env)
          [] msg.type = "EnableSendEveryBlock" ->
                 [ctx EXCEPT !.self.send_every_block = Some(msg.params)]
          [] msg.type = "DisableSendEveryBlock" ->
                 [ctx EXCEPT !.self.send_every_block = None]
          [] msg.type = "StartAutoBlock" ->
                 LET r == start_auto_block(ctx, env, id)
                 IN  IF ~r.res.ok
                     THEN send_to_gui(send_to_gui(Result(r.ctx, r.res),
                                                  Ev("MinerStopped", <<>>)),
                                      SendMessage("Fail to start autoblock: ", r.res.err))
                     ELSE r.ctx
          [] msg.type = "StopAutoBlock" -> stop_auto_block(ctx)
          [] OTHER -> ctx

\* ----------------------------------------------------------------- state
VARIABLES
    build,              \* "debug" (overflow checks) or "release" (wrapping)
    address, auth,      \* credentials
    client, wallet_client,
    mining_busy,
    send_every_block,
    auto_block_sender,  \* the registered cancellation channel
    mailbox,            \* the receiver's queue: GUI commands and loopback
    running,            \* FALSE once the task of run() has panicked
    workers,            \* per cancellation channel: its receiver and worker
    mined,              \* mining attempts of the workers so far
    sent,               \* commands the controller has sent so far
    handled,            \* the last handled message and what its handler did
    paced,              \* history of the pacing configuration (see Dispatch)
    sample,             \* one evaluation of get_random_tx_count
    delivery,           \* the send tasks spawned for the last handled message
    late                \* per worker: blocks it reported with a Stop waiting

actor == <<address, auth, client, wallet_client, mining_busy, send_every_block,
           auto_block_sender>>
vars == <<build, address, auth, client, wallet_client, mining_busy, send_every_block,
          auto_block_sender, mailbox, running, workers, mined, sent, handled, paced,
          sample, delivery, late>>

\* The fields of the BitcoinD struct.
Self ==
    [address |-> address, auth |-> auth, client |-> client,
     wallet_client |-> wallet_client, mining_busy |-> mining_busy,
     send_every_block |-> send_every_block, auto_block_sender |-> auto_block_sender]

\* BitcoinD::new()
NewSelf ==
    [address |-> None, auth |-> None, client |-> None, wallet_client |-> None,
     mining_busy |-> FALSE, send_every_block |-> None, auto_block_sender |-> None]

\* ------------------------------------------------ the controller's commands
Msg(type) == [type |-> type]
Good == "wsh(pk(tpub/<0;1>/*))"
SomeAddress == [descriptor |-> "-", path |-> 0, index |-> U32(0, 0)]
SendEveryBlock(count, blocks, min, max, start) ==
    [count |-> count, amount_min |-> min, amount_max |-> max, descriptor |-> Good,
     start_index |-> start, blocks |-> blocks, actual_index |-> None]
GenerateToDescriptor(blocks, descriptor, start) ==
    [type |-> "GenerateToDescriptor", blocks |-> blocks, descriptor |-> descriptor,
     start_index |-> start]
SendToDescriptor(count, min, max, descriptor, start) ==
    [type |-> "SendToDescriptor", count |-> count, amount_min |-> min,
     amount_max |-> max, descriptor |-> descriptor, start_index |-> start]

Commands ==
    {[type |-> "SetCredentials", address |-> "127.0.0.1:18443", auth |-> a] :
        a \in {"Cookie", "RpcAuth"}}
    \cup {Msg("Connect"), Msg("Disconnect"), Msg("GetNewAddress"),
          Msg("DisableSendEveryBlock"), Msg("StartAutoBlock"), Msg("StopAutoBlock")}
    \cup {[type |-> t, blocks |-> 1] : t \in {"Generate", "GenerateToSelf"}}
    \cup {[type |-> "GenerateToAddress", blocks |-> 1, address |-> SomeAddress],
          [type |-> "SendToAddress", amount |-> 1, address |-> SomeAddress]}
    \cup {GenerateToDescriptor(MaxBatch, Good, U32(0, 0)),
          GenerateToDescriptor(1, "garbage", U32(0, 0)),
          GenerateToDescriptor(1, Good, U32Max)}
    \cup {SendToDescriptor(MaxBatch, 1, 3, Good, U32(0, 0)),
          SendToDescriptor(1, 2, 2, Good, U32(0, 0)),
          SendToDescriptor(1, 1, 3, "garbage", U32(0, 0)),
          SendToDescriptor(1, 1, 3, Good, U32Max)}
    \cup {[type |-> "EnableSendEveryBlock", params |-> p] :
            p \in {SendEveryBlock(1, 2, 1, 3, U32(0, 5)),
                   SendEveryBlock(1, 2, 2, 2, U32(0, 5)),
                   SendEveryBlock(MaxBatch + 1, 1, 1, 3, U32(Limb - 1, Limb - 2))}}

\* ------------------------------------------------------ environment choices
AmountDraws == {0, 1}
RDraws(send, block) ==
    {r \in {k * MULTIPLIER + d : k \in 0..MaxBatch, d \in {0, 1}}
           \cup {send_per_block(send, block), send_per_block(send, block) + 1,
                 draw_bound(send, block) - 1} :
        r < draw_bound(send, block)}

Envs(NC, NW, L, C, S, T, B, NA, F, R, A) ==
    {[new_client |-> nc, new_wallet |-> nw, load |-> l, create |-> c, settxfee |-> s,
      tip |-> t, bal |-> b, new_addr |-> na, fail_at |-> f, r |-> r, amounts |-> a] :
        nc \in NC, nw \in NW, l \in L, c \in C, s \in S, t \in T, b \in B, na \in NA,
        f \in F, r \in R, a \in A}

Yes == {TRUE}
NoDraws == {<<>>}
\* A handler that only refreshes: the outcomes of get_blockchain_info and
\* get_balance (T, B), of get_new_address (NA) and of its n mining or payment
\* RPCs (the one numbered fail_at fails), with the draws R and n amount draws.
LoopEnvs(T, B, NA, n, R) ==
    Envs(Yes, Yes, {"ok"}, Yes, Yes, T, B, NA, 0..n, R, [1..n -> AmountDraws])
\* connect(): one choice per path through it; T and B are read by the
\* update_data() that follows a success.
ConnectEnvs(T, B) ==
    Envs({FALSE}, Yes, {"ok"}, Yes, Yes, Yes, Yes, Yes, {0}, {0}, NoDraws)
    \cup Envs(Yes, {FALSE}, {"ok"}, Yes, Yes, Yes, Yes, Yes, {0}, {0}, NoDraws)
    \cup Envs(Yes, Yes, {"rpc-4", "transport"}, Yes, Yes, Yes, Yes, Yes, {0}, {0}, NoDraws)
    \cup Envs(Yes, Yes, {"rpc-18"}, {FALSE}, Yes, Yes, Yes, Yes, {0}, {0}, NoDraws)
    \cup Envs(Yes, Yes, {"rpc-18", "rpc-35"}, Yes, {FALSE}, Yes, Yes, Yes, {0}, {0}, NoDraws)
    \cup Envs(Yes, Yes, {"ok", "rpc-18", "rpc-35"}, Yes, Yes, T, B, Yes, {0}, {0}, NoDraws)

\* The choices that can matter to the handler of msg in the state self.
EnvFor(msg, self) ==
    LET t == msg.type
        tip == IF IsSome(self.client) THEN BOOLEAN ELSE Yes
        bal == IF IsSome(self.wallet_client) THEN BOOLEAN ELSE Yes
        \* RPCs issued through the node handle, through the wallet handle
        mines(n) == IF IsSome(self.client) THEN n ELSE 0
        pays(n) == IF IsSome(self.wallet_client) THEN n ELSE 0
    IN  CASE t = "Connect" ->
                 IF is_connected(self) THEN LoopEnvs(tip, bal, Yes, 0, {0})
                 ELSE ConnectEnvs(BOOLEAN, BOOLEAN)
          [] t = "StartAutoBlock" ->
                 IF is_connected(self) THEN ConnectEnvs(Yes, Yes) ELSE {DefaultEnv}
          [] t = "GetNewAddress" -> LoopEnvs(Yes, Yes, bal, 0, {0})
          [] t \in {"Generate", "GenerateToAddress"} ->
                 LoopEnvs(tip, bal, Yes, mines(1), {0})
          [] t = "GenerateToSelf" -> LoopEnvs(tip, bal, bal, mines(1), {0})
          [] t = "GenerateToDescriptor" -> LoopEnvs(tip, bal, Yes, mines(msg.blocks), {0})
          [] t = "SendToAddress" -> LoopEnvs(Yes, Yes, Yes, pays(1), {0})
          [] t = "SendToDescriptor" ->
                 {e \in LoopEnvs(Yes, Yes, Yes, msg.count, {0}) : e.fail_at <= pays(msg.count)}
          [] t = "BlockMined" ->
                 IF IsSome(self.send_every_block)
                 THEN LET p == Unwrap(self.send_every_block)
                      IN  UNION {{e \in LoopEnvs(tip, bal, Yes,
                                                 get_random_tx_count(p.count, p.blocks, r), {r}) :
                                     e.fail_at <= pays(MaxBatch)} :
                                 r \in RDraws(p.count, p.blocks)}
                 ELSE LoopEnvs(tip, bal, Yes, 0, {0})
          [] t = "BatchSent" -> LoopEnvs(tip, bal, Yes, 0, {0})
          [] OTHER -> {DefaultEnv}

\* ------------------------------------------------------------------ Init
NoSample == [send |-> 0, block |-> 0, r |-> 0, count |-> 0, bound |-> 0]

Init ==
    /\ build \in {"debug", "release"}
    /\ address = None /\ auth = None /\ client = None /\ wallet_client = None
    /\ mining_busy = FALSE /\ send_every_block = None /\ auto_block_sender = None
    /\ mailbox = <<>>
    /\ running = TRUE
    /\ workers = <<>>
    /\ mined = 0
    /\ sent = 0
    /\ handled = [msg |-> Msg("-"), pre |-> NewSelf, events |-> <<>>, rpcs |-> <<>>,
                  res |-> Ok, opened |-> None, signal |-> None, tx_count |-> None]
    /\ paced = [sum |-> 0, dropped |-> None, skipped |-> {}]
    /\ sample = NoSample
    /\ delivery = [pending |-> {}, received |-> <<>>]
    /\ late = <<>>

\* --------------------------------------------------------------- actions
\* Gui::send_to_bitcoind(): the send fails once the receiver is gone.
GuiSend ==
    /\ running
    /\ Len(mailbox) < MaxMailbox
    /\ sent < MaxCommands
    /\ sent' = sent + 1
    /\ \E m \in Commands : mailbox' = Append(mailbox, m)
    /\ UNCHANGED <<build, actor, running, workers, mined, handled, paced, sample, delivery, late>>

\* The cursor of a pacing configuration: actual_index if set, else start_index.
Cursor(params) ==
    IF IsSome(params.actual_index) THEN Unwrap(params.actual_index)
    ELSE params.start_index

\* History of the pacing configuration, kept beside the actor: sum is the
\* total of the per-block counts drawn since the last EnableSendEveryBlock;
\* dropped is the start_index of a configuration that had advanced its cursor
\* when the last DisableSendEveryBlock discarded it, kept until a command other
\* than the Enable that follows replaces the configuration; skipped are the
\* indices of the payments that paced blocks of the configuration which
\* returned an error did not get accepted (the failed one and those not
\* attempted).
pacing_history(msg, pre, out) ==
    LET old == pre.send_every_block
        accepted == Len(SelectSeq(out.rpcs,
                                  LAMBDA c : c.call = "send_to_address" /\ c.result = "ok"))
    IN  CASE msg.type = "EnableSendEveryBlock" ->
                 [sum |-> 0, dropped |-> IF old = None THEN paced.dropped ELSE None,
                  skipped |-> {}]
          [] msg.type = "DisableSendEveryBlock" ->
                 [sum |-> 0,
                  dropped |-> IF IsSome(old) /\ Cursor(Unwrap(old)) # Unwrap(old).start_index
                              THEN Some(Unwrap(old).start_index) ELSE None,
                  skipped |-> {}]
          [] OTHER ->
                 IF IsSome(out.tx_count)
                 THEN [paced EXCEPT
                          !.sum = @ + Unwrap(out.tx_count),
                          !.skipped =
                              IF out.res.ok \/ out.panicked THEN @
                              ELSE @ \cup {Add32(Cursor(Unwrap(old)), i).value :
                                              i \in accepted..(Unwrap(out.tx_count) - 1)}]
                 ELSE paced

\* The message try_recv() returns next has this type.
Receives(type) == mailbox # <<>> /\ Head(mailbox).type = type

ReceiverAlive(w) == w.pc \in {"poll", "tick", "exit"}

\* One turn of run(): try_recv() and handle_message(msg).
Dispatch ==
    /\ running
    /\ mailbox # <<>>
    /\ \E env \in EnvFor(Head(mailbox), Self) :
      \E out \in {handle_message(Ctx(Self), Head(mailbox), env, build, Len(workers) + 1)} :
        LET msg == Head(mailbox)
            w1 == IF IsSome(out.opened) THEN Append(workers, Unwrap(out.opened))
                  ELSE workers
            w2 == IF IsSome(out.signal) /\ ReceiverAlive(w1[Unwrap(out.signal)])
                  THEN [w1 EXCEPT ![Unwrap(out.signal)].stops = @ + 1]
                  ELSE w1
        IN  /\ mailbox' = Tail(mailbox)
            /\ address' = out.self.address
            /\ auth' = out.self.auth
            /\ client' = out.self.client
            /\ wallet_client' = out.self.wallet_client
            /\ mining_busy' = out.self.mining_busy
            /\ send_every_block' = out.self.send_every_block
            /\ auto_block_sender' = out.self.auto_block_sender
            /\ running' = ~out.panicked
            /\ workers' = w2
            /\ handled' = [msg |-> msg, pre |-> Self, events |-> out.events,
                           rpcs |-> out.rpcs, res |-> out.res, opened |-> out.opened,
                           signal |-> out.signal, tx_count |-> out.tx_count]
            /\ paced' = pacing_history(msg, Self, out)
            /\ delivery' = [pending |-> DOMAIN out.events, received |-> <<>>]
            /\ late' = IF IsSome(out.opened) THEN Append(late, 0) ELSE late
    /\ UNCHANGED <<build, mined, sent, sample>>

HandleSetCredentials == Receives("SetCredentials") /\ Dispatch
HandleConnect == Receives("Connect") /\ Dispatch
HandleDisconnect == Receives("Disconnect") /\ Dispatch
HandleGetNewAddress == Receives("GetNewAddress") /\ Dispatch
HandleGenerate == Receives("Generate") /\ Dispatch
HandleGenerateToSelf == Receives("GenerateToSelf") /\ Dispatch
HandleGenerateToAddress == Receives("GenerateToAddress") /\ Dispatch
HandleGenerateToDescriptor == Receives("GenerateToDescriptor") /\ Dispatch
HandleSendToAddress == Receives("SendToAddress") /\ Dispatch
HandleSendToDescriptor == Receives("SendToDescriptor") /\ Dispatch
HandleEnableSendEveryBlock == Receives("EnableSendEveryBlock") /\ Dispatch
HandleDisableSendEveryBlock == Receives("DisableSendEveryBlock") /\ Dispatch
HandleStartAutoBlock == Receives("StartAutoBlock") /\ Dispatch
HandleStopAutoBlock == Receives("StopAutoBlock") /\ Dispatch
HandleBlockMined == Receives("BlockMined") /\ Dispatch
HandleFailMineBlock == Receives("FailMineBlock") /\ Dispatch
HandleMinerStopped == Receives("MinerStopped") /\ Dispatch

\* The worker's sender.send(msg) on the loopback channel: it fails (and is
\* only logged) once the receiver is gone.
Loopback(msg) ==
    /\ running => Len(mailbox) < MaxMailbox
    /\ mailbox' = IF running THEN Append(mailbox, msg) ELSE mailbox

\* The worker's receiver.try_recv(): a Stop ends the loop.
WorkerPoll(id) ==
    /\ id \in DOMAIN workers
    /\ workers[id].pc = "poll"
    /\ workers' = IF workers[id].stops > 0
                  THEN [workers EXCEPT ![id].pc = "exit", ![id].stops = @ - 1]
                  ELSE [workers EXCEPT ![id].pc = "tick"]
    /\ UNCHANGED <<build, actor, mailbox, running, mined, sent, handled, paced, sample, delivery, late>>

\* now <= last_block + delay: sleep and poll again.
WorkerSleep(id) ==
    /\ id \in DOMAIN workers
    /\ workers[id].pc = "tick"
    /\ workers' = [workers EXCEPT ![id].pc = "poll"]
    /\ UNCHANGED <<build, actor, mailbox, running, mined, sent, handled, paced, sample, delivery, late>>

WorkerMine_without_poll(id) ==
    /\ id \in DOMAIN workers
    /\ workers[id].pc = "tick"
    /\ mined < MaxBlocks
    /\ \E ok \in BOOLEAN :
           Loopback(Msg(IF ok THEN "BlockMined" ELSE "FailMineBlock"))
    /\ mined' = mined + 1
    /\ workers' = workers
    /\ late' = IF workers[id].stops > 0 THEN [late EXCEPT ![id] = @ + 1] ELSE late
    /\ UNCHANGED <<build, actor, running, sent, handled, paced, sample, delivery>>

WorkerMine_gives_up(id) ==
    /\ id \in DOMAIN workers
    /\ workers[id].pc = "tick"
    /\ mined < MaxBlocks
    /\ mined' = mined + 1
    /\ \E ok \in BOOLEAN :
        /\ Loopback(Msg(IF ok THEN "BlockMined" ELSE "FailMineBlock"))
        /\ workers' = [workers EXCEPT ![id].pc = IF ok THEN "poll" ELSE "exit"]
    /\ late' = IF workers[id].stops > 0 THEN [late EXCEPT ![id] = @ + 1] ELSE late
    /\ UNCHANGED <<build, actor, running, sent, handled, paced, sample, delivery>>

\* now > last_block + delay: mine one block and report it.
WorkerMine(id) ==
    /\ id \in DOMAIN workers
    /\ workers[id].pc = "tick"
    /\ mined < MaxBlocks
    /\ \E ok \in BOOLEAN :
           Loopback(Msg(IF ok THEN "BlockMined" ELSE "FailMineBlock"))
    /\ mined' = mined + 1
    /\ workers' = [workers EXCEPT ![id].pc = "poll"]
    /\ late' = IF workers[id].stops > 0 THEN [late EXCEPT ![id] = @ + 1] ELSE late
    /\ UNCHANGED <<build, actor, running, sent, handled, paced, sample, delivery>>

WorkerExit_clears_sender(id) ==
    /\ id \in DOMAIN workers
    /\ workers[id].pc = "exit"
    /\ Loopback(Msg("MinerStopped"))
    /\ workers' = [workers EXCEPT ![id].pc = "done", ![id].stops = 0]
    /\ auto_block_sender' = None
    /\ UNCHANGED <<build, address, auth, client, wallet_client, mining_busy,
                   send_every_block, running, mined, sent, handled, paced, sample, delivery, late>>

\* After the loop: MinerStopped, and the task (with its receiver) ends.
WorkerExit(id) ==
    /\ id \in DOMAIN workers
    /\ workers[id].pc = "exit"
    /\ Loopback(Msg("MinerStopped"))
    /\ workers' = [workers EXCEPT ![id].pc = "done", ![id].stops = 0]
    /\ UNCHANGED <<build, actor, running, mined, sent, handled, paced, sample, delivery, late>>

\* Every StartAutoBlock creates at most one channel.
WorkerIds == 1..MaxCommands

Next ==
    \/ GuiSend
    \/ HandleSetCredentials \/ HandleConnect \/ HandleDisconnect
    \/ HandleGetNewAddress
    \/ HandleGenerate \/ HandleGenerateToSelf \/ HandleGenerateToAddress
    \/ HandleGenerateToDescriptor
    \/ HandleSendToAddress \/ HandleSendToDescriptor
    \/ HandleEnableSendEveryBlock \/ HandleDisableSendEveryBlock
    \/ HandleStartAutoBlock \/ HandleStopAutoBlock
    \/ HandleBlockMined \/ HandleFailMineBlock \/ HandleMinerStopped
    \/ \E id \in WorkerIds : WorkerPoll(id)
    \/ \E id \in WorkerIds : WorkerSleep(id)
    \/ \E id \in WorkerIds : WorkerMine(id)
    \/ \E id \in WorkerIds : WorkerExit(id)

Spec == Init /\ [][Next]_vars

\* ------------------------------------------- the auto-block subsystem alone
\* The controller drives only the connection and the miner, and may send one
\* payment command whose amount range is empty.
AutoCommands ==
    {[type |-> "SetCredentials", address |-> "127.0.0.1:18443", auth |-> "Cookie"],
     Msg("Connect"), Msg("StartAutoBlock"), Msg("StopAutoBlock"),
     SendToDescriptor(1, 2, 2, Good, U32(0, 0))}

GuiSendAuto ==
    /\ running
    /\ Len(mailbox) < MaxMailbox
    /\ sent < MaxCommands + 1
    /\ sent' = sent + 1
    /\ \E m \in AutoCommands : mailbox' = Append(mailbox, m)
    /\ UNCHANGED <<build, actor, running, workers, mined, handled, paced, sample, delivery, late>>

NextAuto ==
    \/ GuiSendAuto
    \/ HandleSetCredentials \/ HandleConnect
    \/ HandleSendToDescriptor
    \/ HandleStartAutoBlock \/ HandleStopAutoBlock
    \/ HandleBlockMined \/ HandleFailMineBlock \/ HandleMinerStopped
    \/ \E id \in WorkerIds : WorkerPoll(id)
    \/ \E id \in WorkerIds : WorkerSleep(id)
    \/ \E id \in WorkerIds : WorkerMine(id)
    \/ \E id \in WorkerIds : WorkerExit(id)

\* run() polls its mailbox forever and every spawned worker keeps being
\* scheduled; a loopback send never blocks (the channel is unbounded), so a
\* worker waiting for room in the bounded mailbox gets it eventually.
FairAuto ==
    /\ Init /\ [][NextAuto]_vars
    /\ WF_vars(Dispatch)
    /\ \A id \in WorkerIds :
        /\ WF_vars(WorkerPoll(id))
        /\ SF_vars(WorkerSleep(id) \/ WorkerMine(id))
        /\ SF_vars(WorkerExit(id))

\* ------------------------------------------------ the pacing engine alone
\* The controller connects as Gui::connect_cookie does (SetCredentials, then
\* Connect), starts the miner once (Gui::start_auto_block sends nothing while
\* its autoblock_wip flag is set) and enables, disables and re-enables pacing
\* at more than one transaction per block.
PacingCommands ==
    {Msg("StartAutoBlock"), Msg("DisableSendEveryBlock")}
    \cup {[type |-> "EnableSendEveryBlock",
           params |-> SendEveryBlock(MaxBatch + 1, 1, 1, 3, U32(0, s))] : s \in {5, 9}}

GuiSendPacing ==
    /\ running
    /\ Len(mailbox) < MaxMailbox
    /\ sent < MaxCommands + 2
    /\ sent' = sent + 1
    /\ \E m \in IF sent = 0
                 THEN {[type |-> "SetCredentials", address |-> "127.0.0.1:18443",
                        auth |-> "Cookie"]}
                 ELSE IF sent = 1 THEN {Msg("Connect")}
                 ELSE PacingCommands :
        /\ m.type = "StartAutoBlock" =>
               /\ workers = <<>>
               /\ \A i \in DOMAIN mailbox : mailbox[i].type # "StartAutoBlock"
        /\ mailbox' = Append(mailbox, m)
    /\ UNCHANGED <<build, actor, running, workers, mined, handled, paced, sample, delivery, late>>

NextPacing ==
    \/ GuiSendPacing
    \/ HandleSetCredentials \/ HandleConnect
    \/ HandleEnableSendEveryBlock \/ HandleDisableSendEveryBlock
    \/ HandleStartAutoBlock
    \/ HandleBlockMined \/ HandleFailMineBlock
    \/ \E id \in WorkerIds : WorkerPoll(id)
    \/ \E id \in WorkerIds : WorkerSleep(id)
    \/ \E id \in WorkerIds : WorkerMine(id)

SpecPacing == Init /\ [][NextPacing]_vars

\* ------------------------------------------- get_random_tx_count alone
\* One call of get_random_tx_count(send, block) with the draw r its
\* gen_range() returned out of [0, bound).
Sample ==
    /\ \E send \in 0..MaxSend, block \in 0..MaxRate :
         \E r \in RDraws(send, block) :
            sample' = [send |-> send, block |-> block, r |-> r,
                       count |-> get_random_tx_count(send, block, r),
                       bound |-> draw_bound(send, block)]
    /\ UNCHANGED <<build, actor, mailbox, running, workers, mined, sent, handled, paced,
                   delivery, late>>

NextRate == Sample

SpecRate == Init /\ [][NextRate]_vars

\* ------------------------------------------------ delivery of the events
\* send_to_gui() spawns one task per event, which sends it on the controller's
\* channel: the tasks of one handler complete in any order.  delivery follows
\* the tasks spawned by the last handled message: pending are the positions
\* in handled.events not yet sent, received what the channel holds, in order.
Deliver ==
    /\ \E i \in delivery.pending :
           delivery' = [pending |-> delivery.pending \ {i},
                        received |-> Append(delivery.received, handled.events[i])]
    /\ UNCHANGED <<build, actor, mailbox, running, workers, mined, sent, handled, paced,
                   sample, late>>

\* The controller sets credentials, connects and disconnects.
ConnectCommands ==
    {[type |-> "SetCredentials", address |-> "127.0.0.1:18443", auth |-> "Cookie"],
     Msg("Connect"), Msg("Disconnect")}

GuiSendConnect ==
    /\ running
    /\ Len(mailbox) < MaxMailbox
    /\ sent < MaxCommands
    /\ sent' = sent + 1
    /\ \E m \in ConnectCommands : mailbox' = Append(mailbox, m)
    /\ UNCHANGED <<build, actor, running, workers, mined, handled, paced, sample,
                   delivery, late>>

NextDelivery ==
    \/ GuiSendConnect
    \/ HandleSetCredentials \/ HandleConnect \/ HandleDisconnect
    \/ Deliver

SpecDelivery == Init /\ [][NextDelivery]_vars

\* ---------------------------------------------------------------- claims
Emitted(ev) == \E i \in DOMAIN handled.events : handled.events[i] = ev
EmittedType(type) == \E i \in DOMAIN handled.events : handled.events[i].type = type
Called(name) == \E i \in DOMAIN handled.rpcs : handled.rpcs[i].call = name
CalledWith(name, result) ==
    \E i \in DOMAIN handled.rpcs :
        handled.rpcs[i].call = name /\ handled.rpcs[i].result = result
IsBootstrap(c) == c.call \in {"load_wallet", "create_wallet", "settxfee"}
\* The wallet bootstrap calls of the last handler, in order.
BootstrapCalls ==
    LET calls == SelectSeq(handled.rpcs, IsBootstrap)
    IN  [i \in DOMAIN calls |-> calls[i].call]
Failed == ~handled.res.ok
BoolOutcomes == {GenerateResponse(FALSE), SendResponse(FALSE), Connected(FALSE)}
EmittedOutcome == \E ev \in BoolOutcomes : Emitted(ev)
WorkerActive(id) == workers[id].pc \in {"poll", "tick"}
FreshConnect == handled.msg.type = "Connect" /\ ~is_connected(handled.pre)

\* C1: whenever the Dispatcher has finished handling a message (its task is
\* alive and between messages), the mining gate is unset, whether the
\* generate-class command just handled succeeded or failed.
C1_GateUnsetAfterHandling == running => ~mining_busy

\* C1 witness: a generate-class command whose mining RPC failed has been
\* handled, and the gate is unset.
C1_Witness ==
    /\ handled.msg.type \in GenerateClass
    /\ CalledWith("generate_to_address", "err")
    /\ running /\ ~mining_busy

\* C2: no message stops the mailbox loop: the task of run() is alive in every
\* reachable state, so every message placed in the mailbox is handled.
C2_MailboxLoopNeverStops == running

\* C3 (as claimed): every handler failure is converted into both a SendMessage
\* diagnostic and a false boolean outcome event, for every command class.
C3_FailureEmitsDiagnosticAndOutcome ==
    Failed => EmittedType("SendMessage") /\ EmittedOutcome

\* C3 (amended): every typed error emits a SendMessage diagnostic; it is
\* accompanied by GenerateResponse(false) for the generate class, by
\* SendResponse(false) for SendToAddress/SendToDescriptor and by Connected(false)
\* for Connect, by MinerStopped for StartAutoBlock, and by no boolean outcome
\* event for GetNewAddress and for a pacing failure while handling BlockMined.
C3_FailureEvents ==
    Failed =>
        /\ EmittedType("SendMessage")
        /\ handled.msg.type \in GenerateClass => Emitted(GenerateResponse(FALSE))
        /\ handled.msg.type \in {"SendToAddress", "SendToDescriptor"} =>
               Emitted(SendResponse(FALSE))
        /\ handled.msg.type = "Connect" => Emitted(Connected(FALSE))
        /\ handled.msg.type = "StartAutoBlock" =>
               EmittedType("MinerStopped") /\ ~EmittedOutcome
        /\ handled.msg.type \in {"GetNewAddress", "BlockMined"} => ~EmittedOutcome

\* C3 witness: a payment command failed and both events were emitted.
C3_Witness ==
    /\ handled.msg.type = "SendToDescriptor" /\ Failed
    /\ EmittedType("SendMessage") /\ Emitted(SendResponse(FALSE))

\* C4: a StopAutoBlock handled while an auto-block worker is active leads to
\* MinerStopped being handled (forwarded to the controller) with the
\* registered cancellation sender cleared.
C4_StopLeadsToMinerStopped ==
    (handled.msg.type = "StopAutoBlock" /\ \E id \in DOMAIN workers : WorkerActive(id))
        ~> (handled.msg.type = "MinerStopped" /\ auto_block_sender = None)

\* C5: the cancellation sender is registered only while the worker holding
\* its receiver is alive.
C5_SenderOnlyWhileWorkerAlive ==
    IsSome(auto_block_sender) => ReceiverAlive(workers[Unwrap(auto_block_sender)])

\* C6 (as claimed): a Connect whose load_wallet failed with -18 calls
\* load_wallet, create_wallet, settxfee in this order and succeeds.
C6_CreateThenSuccess ==
    (FreshConnect /\ CalledWith("load_wallet", "rpc-18")) =>
        /\ BootstrapCalls = <<"load_wallet", "create_wallet", "settxfee">>
        /\ IsSome(client) /\ IsSome(wallet_client)

\* C6 (amended): a Connect whose load_wallet failed with -18 calls
\* create_wallet exactly once, right after load_wallet; settxfee follows when
\* create_wallet succeeded; the connect succeeds (both handles stored,
\* Connected(true)) exactly when create_wallet and settxfee both succeeded, and
\* otherwise stores no handle.
C6_CreateOnce ==
    (FreshConnect /\ CalledWith("load_wallet", "rpc-18")) =>
        /\ BootstrapCalls = IF CalledWith("create_wallet", "ok")
                            THEN <<"load_wallet", "create_wallet", "settxfee">>
                            ELSE <<"load_wallet", "create_wallet">>
        /\ IF CalledWith("create_wallet", "ok") /\ CalledWith("settxfee", "ok")
           THEN IsSome(client) /\ IsSome(wallet_client) /\ Emitted(Connected(TRUE))
           ELSE client = None /\ wallet_client = None /\ Emitted(Connected(FALSE))

\* C6 witness: load_wallet failed with -18, the wallet was created, the fee
\* set and both handles stored.
C6_Witness ==
    /\ FreshConnect /\ CalledWith("load_wallet", "rpc-18")
    /\ BootstrapCalls = <<"load_wallet", "create_wallet", "settxfee">>
    /\ IsSome(client) /\ IsSome(wallet_client)

\* C7 (as claimed): a Connect whose load_wallet failed with -35 never calls
\* create_wallet and succeeds.
C7_AlreadyLoadedSucceeds ==
    (FreshConnect /\ CalledWith("load_wallet", "rpc-35")) =>
        /\ ~Called("create_wallet")
        /\ IsSome(client) /\ IsSome(wallet_client)

\* C7 (amended): a Connect whose load_wallet failed with -35 never calls
\* create_wallet; it goes on to settxfee and succeeds exactly when settxfee
\* succeeded.
C7_AlreadyLoadedNoCreate ==
    (FreshConnect /\ CalledWith("load_wallet", "rpc-35")) =>
        /\ BootstrapCalls = <<"load_wallet", "settxfee">>
        /\ IF CalledWith("settxfee", "ok")
           THEN IsSome(client) /\ IsSome(wallet_client) /\ Emitted(Connected(TRUE))
           ELSE client = None /\ wallet_client = None /\ Emitted(Connected(FALSE))

\* C7 witness: load_wallet failed with -35 and the connect succeeded.
C7_Witness ==
    /\ FreshConnect /\ CalledWith("load_wallet", "rpc-35")
    /\ ~Called("create_wallet") /\ IsSome(client)

\* C8: every successful connect has called settxfee after the wallet was
\* loaded or created, and a settxfee failure makes the connect fail.
C8_SuccessfulConnectSetsFee ==
    FreshConnect =>
        /\ handled.res.ok => CalledWith("settxfee", "ok")
        /\ CalledWith("settxfee", "err") => Failed /\ client = None

\* C9: a Connect handled while a credential is absent fails with
\* CredentialMissing without any RPC call: the actor stays disconnected, emits
\* the diagnostic and Connected(false), and its loop stays alive.
C9_ConnectWithoutCredentials ==
    (handled.msg.type = "Connect"
        /\ (handled.pre.address = None \/ handled.pre.auth = None)) =>
        /\ handled.res = Err("CredentialMissing")
        /\ handled.rpcs = <<>>
        /\ client = None /\ wallet_client = None
        /\ handled.events = <<SendMessage("Fail to connect: ", "CredentialMissing"),
                              Connected(FALSE)>>
        /\ running

\* C9 witness: Connect was handled after a Disconnect had cleared the auth.
C9_Witness ==
    /\ handled.msg.type = "Connect"
    /\ IsSome(handled.pre.address) /\ handled.pre.auth = None
    /\ Emitted(Connected(FALSE))

\* C10: a Connect handled while connected leaves both handles and the
\* credentials unchanged, issues no Client::new, load_wallet, create_wallet or
\* settxfee, and re-emits Connected(true).
C10_DoubleConnect ==
    (handled.msg.type = "Connect" /\ is_connected(handled.pre)) =>
        /\ client = handled.pre.client
        /\ wallet_client = handled.pre.wallet_client
        /\ address = handled.pre.address /\ auth = handled.pre.auth
        /\ ~Called("Client::new") /\ BootstrapCalls = <<>>
        /\ Emitted(Connected(TRUE)) /\ ~Emitted(Connected(FALSE))

\* C10 witness: Connect was handled while connected, after SetCredentials had
\* replaced the auth the handles were built with.
C10_Witness ==
    /\ handled.msg.type = "Connect" /\ is_connected(handled.pre)
    /\ Unwrap(handled.pre.client).auth # Unwrap(handled.pre.auth)
    /\ Emitted(Connected(TRUE))

\* C11: a Disconnect handled in any state leaves both RPC handles and both
\* credentials (address and auth) cleared and announces Connected(false).
C11_DisconnectClearsEverything ==
    handled.msg.type = "Disconnect" =>
        /\ client = None /\ wallet_client = None
        /\ address = None /\ auth = None
        /\ Emitted(Connected(FALSE))

\* C12: with pacing enabled at start_index s and no cursor supplied, the
\* cursor equals s plus the sum of the per-block counts of the BlockMined
\* events handled since (no overflow of the sum: the equality is over the
\* naturals), and is absent only while that sum is still empty.
C12_CursorIsStartPlusCounts ==
    (running /\ IsSome(send_every_block)) =>
        LET p == Unwrap(send_every_block)
            total == Add32(p.start_index, paced.sum)
        IN  IF IsSome(p.actual_index)
            THEN ~total.overflow /\ Unwrap(p.actual_index) = total.value
            ELSE paced.sum = 0

\* C13: a handled message other than Enable/DisableSendEveryBlock never
\* leaves the cursor of the enabled configuration lower than it found it.
C13_CursorNeverDecreases ==
    (IsSome(handled.pre.send_every_block) /\ IsSome(send_every_block)
        /\ handled.msg.type \notin {"EnableSendEveryBlock", "DisableSendEveryBlock"}) =>
        ~Lt32(Cursor(Unwrap(send_every_block)), Cursor(Unwrap(handled.pre.send_every_block)))

IsPayment(c) == c.call = "send_to_address"
\* The payment RPCs of the last handler, in order.
Payments == SelectSeq(handled.rpcs, IsPayment)
\* The last handled message was the first paced BlockMined of a configuration
\* enabled right after a Disable that discarded progress made from the same
\* start_index.
Restarted ==
    /\ handled.msg.type = "BlockMined"
    /\ IsSome(handled.pre.send_every_block)
    /\ Unwrap(handled.pre.send_every_block).actual_index = None
    /\ paced.dropped = Some(Unwrap(handled.pre.send_every_block).start_index)

\* C14: after DisableSendEveryBlock followed by EnableSendEveryBlock with the
\* same start_index s, the next paced block pays to the indices s, s+1, ...:
\* its first payment goes to index s and the cursor it leaves is s plus its
\* count, whatever progress the discarded configuration had made.
C14_ReenableRestartsAtStart ==
    (running /\ Restarted) =>
        LET s == Unwrap(paced.dropped)
        IN  /\ \A i \in DOMAIN Payments :
                   Payments[i].address.index = Add32(s, i - 1).value
            /\ Cursor(Unwrap(send_every_block)) = Add32(s, paced.sum).value

\* C14 witness: pacing was re-enabled at 5 after progress from 5 had been
\* discarded, and the first payment of the next paced block went to index 5.
C14_Witness ==
    /\ Restarted /\ paced.dropped = Some(U32(0, 5))
    /\ Payments # <<>>
    /\ Payments[1].address.index = U32(0, 5)

Sampled == sample # NoSample

\* C15: with scaled_rate the scaled target rate of the call, when
\* scaled_rate <= 10000 the draw r comes from [0, 10000) and the result is 1
\* if r > scaled_rate, else 0; otherwise r comes from [0, scaled_rate) and the
\* result is floor(r / 10000) if r > 10000, else 0.
C15_TxCountFromDraw ==
    Sampled =>
        LET scaled_rate == send_per_block(sample.send, sample.block)
            r == sample.r
        IN  IF scaled_rate <= 10000
            THEN /\ sample.bound = 10000 /\ r \in 0..9999
                 /\ sample.count = IF r > scaled_rate THEN 1 ELSE 0
            ELSE /\ sample.bound = scaled_rate /\ r \in 0..(scaled_rate - 1)
                 /\ sample.count = IF r > 10000 THEN r \div 10000 ELSE 0

\* C15 witness: both regimes at the edge of their comparison: a draw equal to
\* scaled_rate gives 0 below one transaction per block, and a draw of 10001
\* gives 1 above it.
C15_Witness ==
    \/ /\ sample.send = 1 /\ sample.block = 2 /\ sample.r = 5000 /\ sample.count = 0
    \/ /\ sample.send = 3 /\ sample.block = 1 /\ sample.r = 10001 /\ sample.count = 1

\* C16: for count = 1 and blocks = 10 the fraction of the equally likely
\* draws for which get_random_tx_count returns 1 lies in [0.08, 0.12].
C16_MeanNearOneTenth ==
    (sample.send = 1 /\ sample.block = 10) =>
        LET hits == Cardinality({r \in 0..(sample.bound - 1) :
                                    get_random_tx_count(1, 10, r) = 1})
        IN  8 * sample.bound <= 100 * hits /\ 100 * hits <= 12 * sample.bound

\* C17: for all inputs (count = 0 and blocks = 0 included) and every draw,
\* get_random_tx_count returns a non-negative integer of at most 10000.
C17_TxCountWithinCap == Sampled => sample.count \in 0..10000

\* C17 witness: count = 0 and blocks = 0 with the highest draw, which yields
\* the largest count the function can return.
C17_Witness ==
    /\ sample.send = 0 /\ sample.block = 0
    /\ sample.r = sample.bound - 1 /\ sample.count = 9999

Refreshing == handled.msg.type \in GenerateClass \cup {"BlockMined", "BatchSent"}

\* C18 (as claimed): after every generate-class command and every BlockMined
\* or BatchSent, both UpdateBlockchainTip and UpdateBalance are emitted.
C18_BothStatusEventsEmitted ==
    Refreshing => EmittedType("UpdateBlockchainTip") /\ EmittedType("UpdateBalance")

\* C18 (amended): after every generate-class command and every BlockMined or
\* BatchSent whose handler returns, the chain tip is queried when the node
\* handle is present and UpdateBlockchainTip is emitted exactly when that query
\* succeeded; the balance is queried when the wallet handle is present and
\* UpdateBalance is emitted exactly when that query succeeded.  A handler that
\* panics emits neither.
C18_StatusEventsWhenRefreshSucceeds ==
    Refreshing =>
        IF running
        THEN /\ Called("get_blockchain_info") <=> IsSome(client)
             /\ Called("get_balance") <=> IsSome(wallet_client)
             /\ EmittedType("UpdateBlockchainTip") <=> CalledWith("get_blockchain_info", "ok")
             /\ EmittedType("UpdateBalance") <=> CalledWith("get_balance", "ok")
        ELSE ~EmittedType("UpdateBlockchainTip") /\ ~EmittedType("UpdateBalance")

\* C18 witness: a BlockMined was handled while connected and both status
\* events were emitted.
C18_Witness ==
    /\ handled.msg.type = "BlockMined" /\ running
    /\ EmittedType("UpdateBlockchainTip") /\ EmittedType("UpdateBalance")

AutoMining == \E id \in DOMAIN workers : WorkerActive(id)

\* C20: while an auto-block worker is alive and mining the mining gate is
\* set, and a one-shot generate command handled meanwhile is dropped: it
\* issues no RPC and emits no GenerateResponse.
C20_GateSetWhileAutoMining ==
    (running /\ AutoMining) =>
        /\ mining_busy
        /\ handled.msg.type \in GenerateClass =>
               handled.rpcs = <<>> /\ ~EmittedType("GenerateResponse")

\* C21: an auto-block worker leaves its loop only by taking a Stop from its
\* cancellation channel; a mining attempt, failed (FailMineBlock posted on the
\* loopback channel) or not, returns it to polling.
C21_WorkerLeavesOnlyOnStop ==
    [][\A id \in DOMAIN workers :
          /\ (WorkerActive(id) /\ ~WorkerActive(id)') =>
                 workers[id].stops > 0 /\ workers'[id].pc = "exit"
          /\ (WorkerActive(id) /\ mined' # mined /\ workers'[id] # workers[id]) =>
                 /\ workers'[id].pc = "poll"
                 /\ running =>
                        mailbox' \in {Append(mailbox, Msg("BlockMined")),
                                      Append(mailbox, Msg("FailMineBlock"))}]_vars

\* C21 witness: FailMineBlock has been handled, and the only worker, still
\* active with no Stop pending, has made a further mining attempt since.
C21_Witness ==
    /\ handled.msg.type = "FailMineBlock"
    /\ Len(workers) = 1 /\ WorkerActive(1) /\ workers[1].stops = 0
    /\ mined = 2 /\ mailbox # <<>>
    /\ Head(mailbox).type \in {"BlockMined", "FailMineBlock"}

\* C22: each FailMineBlock raised by the background worker and handled by the
\* Dispatcher results in an event sent to the controller.
C22_FailMineBlockReported ==
    handled.msg.type = "FailMineBlock" => handled.events # <<>>

\* C23: a StopAutoBlock handled while no cancellation sender is registered
\* emits no event, posts no Stop signal, issues no RPC and leaves every field
\* of the actor as it was.
C23_StopWithoutSenderIsNoOp ==
    (handled.msg.type = "StopAutoBlock" /\ handled.pre.auto_block_sender = None) =>
        /\ handled.events = <<>> /\ handled.rpcs = <<>>
        /\ handled.signal = None
        /\ Self = handled.pre
        /\ running

\* C23 witness: StopAutoBlock was handled while connected, with no sender
\* registered, and nothing was emitted.
C23_Witness ==
    /\ handled.msg.type = "StopAutoBlock" /\ handled.pre.auto_block_sender = None
    /\ is_connected(handled.pre)
    /\ handled.events = <<>>

\* The last handler spawned a worker.
Spawned == IsSome(handled.opened) /\ Unwrap(handled.opened).pc = "poll"
\* The handle a Client::new on the node endpoint yields with the credentials
\* the last handler found.
FreshClient ==
    Client(Unwrap(handled.pre.address), None, Unwrap(handled.pre.auth))

\* C24 (as claimed): StartAutoBlock handled while disconnected spawns no
\* worker and registers no sender; handled while connected it spawns exactly
\* one worker holding its own freshly opened handle and leaves the
\* Dispatcher's handles unchanged.
C24_StartSpawnsOneWorker ==
    handled.msg.type = "StartAutoBlock" =>
        IF ~is_connected(handled.pre)
        THEN handled.opened = None /\ auto_block_sender = handled.pre.auto_block_sender
        ELSE /\ Spawned /\ Called("Client::new")
             /\ Unwrap(handled.opened).client = Some(FreshClient)
             /\ client = handled.pre.client
             /\ wallet_client = handled.pre.wallet_client

\* C24 (amended): StartAutoBlock handled while disconnected spawns no worker,
\* registers no sender and issues no call; handled while connected it opens a
\* fresh pair of handles with connect() and leaves the Dispatcher's handles
\* unchanged, and it spawns exactly one worker, holding the freshly opened node
\* handle, if that connect() succeeds and no worker if it fails.
C24_StartSpawnsWorkerIfConnectSucceeds ==
    handled.msg.type = "StartAutoBlock" =>
        IF ~is_connected(handled.pre)
        THEN /\ handled.opened = None /\ handled.rpcs = <<>>
             /\ auto_block_sender = handled.pre.auto_block_sender
        ELSE /\ Called("Client::new")
             /\ client = handled.pre.client
             /\ wallet_client = handled.pre.wallet_client
             /\ Spawned <=> handled.res.ok
             /\ Spawned => Unwrap(handled.opened).client = Some(FreshClient)

\* C24 witness: a worker was spawned with a handle built from credentials
\* newer than those of the Dispatcher's own handle.
C24_Witness ==
    /\ handled.msg.type = "StartAutoBlock" /\ Spawned
    /\ Unwrap(handled.opened).client = Some(FreshClient)
    /\ Some(FreshClient) # client

\* A step of the Dispatcher: it takes exactly the head of the mailbox and
\* records it as handled.
DispatcherStep ==
    /\ running /\ mailbox # <<>>
    /\ mailbox' = Tail(mailbox)
    /\ handled'.msg = Head(mailbox) /\ handled'.pre = Self

\* C25: the actor's fields (gate, pacing configuration and cursor,
\* credentials, RPC handles, registered sender) change only in a step of the
\* Dispatcher, which handles exactly one mailbox message; a step in which a
\* worker moves on its own changes none of them, and besides its own position
\* it touches only its cancellation channel and the loopback mailbox.
C25_ActorStateOwnedByDispatcher ==
    [][/\ (actor' # actor \/ handled' # handled \/ running' # running) => DispatcherStep
       /\ (workers' # workers /\ ~DispatcherStep) =>
              /\ UNCHANGED <<actor, handled, running, paced, sent>>
              /\ mailbox' = mailbox
                 \/ \E type \in {"BlockMined", "FailMineBlock", "MinerStopped"} :
                        mailbox' = Append(mailbox, Msg(type))]_vars

\* C25 witness: the Dispatcher has changed the pacing configuration while a
\* worker was running, and the worker has posted a message since.
C25_Witness ==
    /\ handled.msg.type = "EnableSendEveryBlock"
    /\ send_every_block # handled.pre.send_every_block
    /\ AutoMining /\ mailbox # <<>>
    /\ Head(mailbox).type \in {"BlockMined", "FailMineBlock"}

\* The last handled message is the Connect of the end-to-end scenario:
\* credentials set, load_wallet answered -18, create_wallet and settxfee
\* succeeded; and every event it emitted has reached the controller.
BootstrapScenarioDelivered ==
    /\ FreshConnect
    /\ IsSome(handled.pre.address) /\ IsSome(handled.pre.auth)
    /\ CalledWith("load_wallet", "rpc-18")
    /\ CalledWith("create_wallet", "ok") /\ CalledWith("settxfee", "ok")
    /\ delivery.pending = {}

\* C26 (as claimed): in the end-to-end scenario the final event the
\* controller receives for the Connect is Connected(true).
C26_ConnectedIsFinalEvent ==
    BootstrapScenarioDelivered =>
        /\ delivery.received # <<>>
        /\ delivery.received[Len(delivery.received)] = Connected(TRUE)

\* C26 (amended): in the end-to-end scenario the controller receives
\* Connected(true) exactly once for the Connect and no Connected(false) or
\* diagnostic; the only other events it receives for it are the status events
\* of the refresh that follows: UpdateBlockchainTip if get_blockchain_info
\* succeeded and UpdateBalance if get_balance succeeded, in no fixed order with
\* respect to Connected(true), which is the final (and only) event when
\* neither query succeeded.
C26_ConnectedReceivedOnce ==
    BootstrapScenarioDelivered =>
        /\ Cardinality({i \in DOMAIN delivery.received :
                           delivery.received[i] = Connected(TRUE)}) = 1
        /\ \A i \in DOMAIN delivery.received :
               delivery.received[i] \in {Connected(TRUE), Ev("UpdateBlockchainTip", <<>>),
                                         Ev("UpdateBalance", <<>>)}
        /\ (\E i \in DOMAIN delivery.received :
                delivery.received[i] = Ev("UpdateBlockchainTip", <<>>)) <=>
               CalledWith("get_blockchain_info", "ok")
        /\ (\E i \in DOMAIN delivery.received :
                delivery.received[i] = Ev("UpdateBalance", <<>>)) <=>
               CalledWith("get_balance", "ok")
        /\ Len(delivery.received) = Len(handled.events)
        /\ (~CalledWith("get_blockchain_info", "ok") /\ ~CalledWith("get_balance", "ok")) =>
               delivery.received = <<Connected(TRUE)>>

\* C26 witness: in the scenario the controller has received Connected(true)
\* before one status event and after the other.
C26_Witness ==
    /\ BootstrapScenarioDelivered
    /\ Len(delivery.received) = 3
    /\ delivery.received[2] = Connected(TRUE)

\* The last handled message derives addresses from a descriptor: a descriptor
\* command, or a BlockMined with a pacing configuration present.
Derives ==
    \/ handled.msg.type \in {"SendToDescriptor", "GenerateToDescriptor"}
    \/ handled.msg.type = "BlockMined" /\ IsSome(handled.pre.send_every_block)
\* The descriptor text it derives from, and the first index it asks for.
DerivedFrom ==
    IF handled.msg.type = "BlockMined"
    THEN Unwrap(handled.pre.send_every_block).descriptor
    ELSE handled.msg.descriptor
FirstIndex ==
    IF handled.msg.type = "BlockMined" THEN Cursor(Unwrap(handled.pre.send_every_block))
    ELSE handled.msg.start_index
\* The mining and payment RPCs the handler issued for derived addresses.
DerivedCalls ==
    SelectSeq(handled.rpcs, LAMBDA c : c.call \in {"send_to_address", "generate_to_address"})

C28_OutOfRangeWitness ==
    /\ Derives /\ from_str_ok(DerivedFrom)
    /\ handled.res = Err("DeriveDescriptor")

\* The payments of the last handler the node accepted.
Accepted ==
    SelectSeq(handled.rpcs, LAMBDA c : c.call = "send_to_address" /\ c.result = "ok")

\* C29: when BlockMined is handled with a pacing configuration present and
\* computed count k, exactly k payments are sent, to the indices cursor,
\* cursor+1, ..., cursor+k-1 in that order, each of an amount in
\* [amount_min, amount_max), and the cursor then stands k further.
C29_ExactlyKPaymentsThenAdvance ==
    (/\ handled.msg.type = "BlockMined"
     /\ IsSome(handled.pre.send_every_block)
     /\ IsSome(handled.tx_count)) =>
        LET params == Unwrap(handled.pre.send_every_block)
            k == Unwrap(handled.tx_count)
        IN  /\ running
            /\ Len(Accepted) = k
            /\ \A i \in DOMAIN Accepted :
                   /\ Accepted[i].address.index = Add32(Cursor(params), i - 1).value
                   /\ params.amount_min <= Accepted[i].amount
                   /\ Accepted[i].amount < params.amount_max
            /\ IsSome(send_every_block)
            /\ Cursor(Unwrap(send_every_block)) = Add32(Cursor(params), k).value
            /\ ~Lt32(Cursor(Unwrap(send_every_block)), Cursor(params))

\* C29, the state that refutes it: a paced block with a valid amount range and
\* no index overflow left the cursor k further although the node accepted
\* fewer than k payments.
C29_CursorAdvancedPastUnsentPayments ==
    /\ handled.msg.type = "BlockMined" /\ running
    /\ IsSome(handled.pre.send_every_block) /\ IsSome(handled.tx_count)
    /\ Unwrap(handled.pre.send_every_block).amount_min <
           Unwrap(handled.pre.send_every_block).amount_max
    /\ Len(Accepted) < Unwrap(handled.tx_count)
    /\ IsSome(handled.pre.wallet_client)
    /\ Cursor(Unwrap(send_every_block)) =
           Add32(Cursor(Unwrap(handled.pre.send_every_block)), Unwrap(handled.tx_count)).value
    /\ Lt32(Cursor(Unwrap(handled.pre.send_every_block)), Cursor(Unwrap(send_every_block)))

\* What handle_message would do with a BatchSent in the current state (no
\* component posts one).
BatchSentOutcomes ==
    {handle_message(Ctx(Self), Msg("BatchSent"), env, build, Len(workers) + 1) :
        env \in EnvFor(Msg("BatchSent"), Self)}

\* C30: the pacing engine runs only inside the handling of a BlockMined with
\* a pacing configuration present: no other message computes a count, only
\* BlockMined and the two send commands issue payments, only BlockMined and
\* the enable/disable commands change the configuration or its cursor, and a
\* BlockMined with no configuration pays nothing and leaves none.
C30_PacingOnlyOnBlockMinedWithConfig ==
    /\ IsSome(handled.tx_count) =>
           handled.msg.type = "BlockMined" /\ IsSome(handled.pre.send_every_block)
    /\ handled.msg.type \notin {"BlockMined", "SendToAddress", "SendToDescriptor"} =>
           Payments = <<>>
    /\ handled.msg.type \notin {"BlockMined", "EnableSendEveryBlock",
                               "DisableSendEveryBlock", "-"} =>
           send_every_block = handled.pre.send_every_block
    /\ (handled.msg.type = "BlockMined" /\ handled.pre.send_every_block = None) =>
           Payments = <<>> /\ send_every_block = None
    /\ \A out \in BatchSentOutcomes :
           /\ out.tx_count = None
           /\ SelectSeq(out.rpcs, IsPayment) = <<>>
           /\ out.self.send_every_block = send_every_block

\* C30 witness: a generate command has mined a block while connected with a
\* pacing configuration present, and left the configuration alone.
C30_Witness ==
    /\ handled.msg.type \in GenerateClass
    /\ handled.res.ok /\ CalledWith("generate_to_address", "ok")
    /\ IsSome(handled.pre.wallet_client)
    /\ IsSome(send_every_block)

\* C30 second witness: a BlockMined was handled while connected with no
\* pacing configuration.
C30_NoConfigWitness ==
    /\ handled.msg.type = "BlockMined"
    /\ handled.pre.send_every_block = None
    /\ IsSome(handled.pre.wallet_client)

\* The connect() of the last handler met a fatal bootstrap error: load_wallet
\* failed with an RPC code other than -18 and -35 or with a transport error,
\* or create_wallet failed after -18.
FatalBootstrap ==
    \/ CalledWith("load_wallet", "rpc-4") \/ CalledWith("load_wallet", "transport")
    \/ CalledWith("create_wallet", "err")

\* C31: when the bootstrap of connect() meets a fatal error, connect fails
\* with an Rpc error, no settxfee is issued, the handles of the actor are left
\* as they were and no worker is given one; when the message was a Connect no
\* handle is stored and the events emitted are the diagnostic followed by
\* Connected(false), and nothing else.
C31_FatalBootstrapFailsConnect ==
    FatalBootstrap =>
        /\ handled.msg.type \in {"Connect", "StartAutoBlock"}
        /\ handled.res = Err("Rpc")
        /\ ~Called("settxfee")
        /\ client = handled.pre.client /\ wallet_client = handled.pre.wallet_client
        /\ ~Spawned
        /\ handled.msg.type = "Connect" =>
               /\ client = None /\ wallet_client = None
               /\ handled.events = <<SendMessage("Fail to connect: ", "Rpc"),
                                     Connected(FALSE)>>

\* C31 witness: a Connect whose load_wallet answered -18 and whose
\* create_wallet then failed has been handled.
C31_Witness ==
    /\ FreshConnect
    /\ CalledWith("load_wallet", "rpc-18") /\ CalledWith("create_wallet", "err")
    /\ Emitted(Connected(FALSE))

\* C31 second witness: a Connect whose load_wallet failed in transport.
C31_TransportWitness ==
    FreshConnect /\ CalledWith("load_wallet", "transport") /\ Emitted(Connected(FALSE))

\* C32: for all count >= 1 and blocks >= 1 the scaled rate get_random_tx_count
\* uses is min(count / blocks, 10000) * 10000 rounded to the nearest integer
\* (count = 2, blocks = 3 gives 6667).
C32_ScaledRateIsRounded ==
    (Sampled /\ sample.send >= 1 /\ sample.block >= 1) =>
        LET nearest == (2 * sample.send * MULTIPLIER + sample.block) \div (2 * sample.block)
            rounded == IF sample.send >= MAX_TX_PER_BLOCK * sample.block
                       THEN MAX_TX_PER_BLOCK * MULTIPLIER
                       ELSE nearest
        IN  /\ send_per_block(sample.send, sample.block) = rounded
            /\ sample.bound = IF rounded <= MULTIPLIER THEN MULTIPLIER ELSE rounded

\* C33: a worker polls its receiver before each mining attempt (it mines only
\* from the state it enters by a poll that found no Stop) and a poll that
\* finds a Stop ends the loop, so it reports at most one block while a Stop
\* waits; having left the loop it mines nothing, posts MinerStopped once and
\* then does nothing more; and only a worker leaving its loop posts MinerStopped.
C33_StopEndsMiningThenOneMinerStopped ==
    /\ [](\A id \in DOMAIN workers : late[id] <= 1)
    /\ [][/\ \A id \in DOMAIN workers :
               LET w == workers[id]
                   v == workers'[id]
               IN  /\ (v.pc = "tick" /\ w.pc # "tick") => w.pc = "poll" /\ w.stops = 0
                   /\ (w.pc = "poll" /\ v.pc # "poll" /\ w.stops > 0) => v.pc = "exit"
                   /\ (w.pc = "tick" /\ v.pc # "tick") => v.pc = "poll"
                   /\ (w.pc = "exit" /\ v.pc # "exit") =>
                          /\ v.pc = "done" /\ mined' = mined
                          /\ running => mailbox' = Append(mailbox, Msg("MinerStopped"))
                   /\ w.pc = "done" => v = w
          /\ mined' # mined =>
                 \E id \in DOMAIN workers :
                     workers[id].pc = "tick" /\ workers'[id].pc = "poll"
          /\ (mailbox' # <<>> /\ mailbox' # mailbox
                 /\ mailbox'[Len(mailbox')] = Msg("MinerStopped")) =>
                 \E id \in DOMAIN workers :
                     workers[id].pc = "exit" /\ workers'[id].pc = "done"]_vars

\* C33 witness: a worker that had polled before the Stop was posted reported
\* one more block, then left its loop and its MinerStopped has been handled.
C33_Witness ==
    /\ handled.msg.type = "MinerStopped"
    /\ Len(workers) = 1 /\ workers[1].pc = "done"
    /\ late[1] = 1

\* C34: whenever an auto-block worker is in its loop, the cancellation sender
\* the Dispatcher has registered is the one of that worker's channel, so that
\* a StopAutoBlock reaches it.
C34_SenderReachesLiveWorker ==
    \A id \in DOMAIN workers : WorkerActive(id) => auto_block_sender = Some(id)

\* C34, a state that refutes it: the MinerStopped of a stopped worker has
\* cleared the sender registered by a later StartAutoBlock, whose worker is
\* still in its loop.
C34_OldMinerStoppedClearsNewSender ==
    /\ handled.msg.type = "MinerStopped"
    /\ Len(workers) = 2
    /\ workers[1].pc = "done" /\ WorkerActive(2)
    /\ handled.pre.auto_block_sender = Some(2) /\ auto_block_sender = None

\* C35: the controller receives the events of a handler in the order in which
\* the Dispatcher emitted them: what it has received is always a prefix of
\* what was emitted.
C35_ReceivedInEmissionOrder ==
    /\ Len(delivery.received) <= Len(handled.events)
    /\ \A k \in DOMAIN delivery.received : delivery.received[k] = handled.events[k]

\* C36: the mining gate is unset whenever the Dispatcher takes a message from
\* the mailbox, so no generate-class command is dropped by the gate: each one
\* handled ran its operation and answered with a GenerateResponse (unless the
\* handler panicked), also while an auto-block worker is mining.
C36_GateNeverDropsACommand ==
    /\ ~handled.pre.mining_busy
    /\ (running /\ mailbox # <<>>) => ~mining_busy
    /\ (handled.msg.type \in GenerateClass /\ running) => EmittedType("GenerateResponse")

\* C36 witness: a Generate handled while an auto-block worker was in its loop
\* mined its block and answered GenerateResponse(true).
C36_Witness ==
    /\ handled.msg.type \in GenerateClass
    /\ \E id \in DOMAIN workers : WorkerActive(id)
    /\ CalledWith("generate_to_address", "ok")
    /\ Emitted(GenerateResponse(TRUE))

\* C37: handling Disconnect posts no Stop, leaves the registered sender, the
\* pacing configuration and every worker (its own handle included) as they
\* were, and afterwards a StopAutoBlock still posts Stop on the channel of the
\* registered worker.
C37_DisconnectLeavesMinerAlone ==
    /\ [](handled.msg.type = "Disconnect" =>
             /\ handled.signal = None /\ handled.opened = None
             /\ auto_block_sender = handled.pre.auto_block_sender
             /\ send_every_block = handled.pre.send_every_block
             /\ \A id \in DOMAIN workers :
                    (WorkerActive(id) /\ auto_block_sender = Some(id)) =>
                        /\ IsSome(workers[id].client)
                        /\ stop_auto_block(Ctx(Self)).signal = Some(id))
    /\ [][(DispatcherStep /\ Head(mailbox).type = "Disconnect") =>
              /\ workers' = workers /\ mined' = mined
              /\ auto_block_sender' = auto_block_sender
              /\ send_every_block' = send_every_block]_vars

\* C37 witness: after a Disconnect that dropped the Dispatcher's handles, the
\* registered worker has mined a block and posted its BlockMined.
C37_Witness ==
    /\ handled.msg.type = "Disconnect"
    /\ IsSome(handled.pre.client) /\ client = None
    /\ auto_block_sender = Some(1) /\ WorkerActive(1)
    /\ mailbox # <<>> /\ Head(mailbox).type = "BlockMined"

\* The last handled message was a paced block that returned an error.
PacedBlockFailed ==
    /\ handled.msg.type = "BlockMined" /\ running
    /\ IsSome(handled.pre.send_every_block) /\ IsSome(handled.tx_count)
    /\ ~handled.res.ok

\* C38: when a paced block of k payments returns an error, the cursor stands
\* the full k beyond where the block found it, the indices of the failed and
\* the not attempted payments lie below it, and no block of the same
\* configuration handled later pays or tries to pay to an index skipped so.
C38_FailedBatchSkipsItsIndices ==
    /\ [](PacedBlockFailed =>
             LET from == Cursor(Unwrap(handled.pre.send_every_block))
                 k == Unwrap(handled.tx_count)
             IN  /\ Len(Accepted) < k
                 /\ Cursor(Unwrap(send_every_block)) = Add32(from, k).value
                 /\ \A i \in Len(Accepted)..(k - 1) :
                        /\ Add32(from, i).value \in paced.skipped
                        /\ Lt32(Add32(from, i).value, Cursor(Unwrap(send_every_block))))
    /\ [][(DispatcherStep /\ Head(mailbox).type = "BlockMined") =>
              \A i \in DOMAIN handled'.rpcs :
                  handled'.rpcs[i].call = "send_to_address" =>
                      handled'.rpcs[i].address.index \notin paced.skipped]_vars

\* C38 witness: a paced block has paid to an index beyond one that an earlier
\* block of the same configuration skipped after a failed payment.
C38_Witness ==
    /\ handled.msg.type = "BlockMined"
    /\ Accepted # <<>>
    /\ \E s \in paced.skipped : Lt32(s, Accepted[1].address.index)

\* C39: each generate-class command handled produces exactly one
\* GenerateResponse, true if and only if its operation succeeded, and each
\* SendToAddress/SendToDescriptor exactly one SendResponse, true if and only
\* if every payment succeeded; with the node disconnected the response is
\* false and no RPC call was issued.
C39_ExactlyOneTruthfulResponse ==
    LET responses(type) == SelectSeq(handled.events, LAMBDA ev : ev.type = type)
        failed == \E i \in DOMAIN handled.rpcs :
                      /\ handled.rpcs[i].call \in {"get_new_address", "generate_to_address",
                                                   "send_to_address"}
                      /\ handled.rpcs[i].result # "ok"
    IN  /\ handled.msg.type \in GenerateClass =>
               /\ Len(responses("GenerateResponse")) = 1
               /\ Emitted(GenerateResponse(TRUE)) <=> (handled.res.ok /\ ~failed)
               /\ handled.pre.client = None =>
                      Emitted(GenerateResponse(FALSE)) /\ handled.rpcs = <<>>
        /\ handled.msg.type \in {"SendToAddress", "SendToDescriptor"} =>
               /\ Len(responses("SendResponse")) = 1
               /\ Emitted(SendResponse(TRUE)) <=> (handled.res.ok /\ ~failed)
               /\ handled.pre.wallet_client = None =>
                      Emitted(SendResponse(FALSE)) /\ handled.rpcs = <<>>

\* C39, a state that refutes it without a panic: in a release build a
\* descriptor command whose index range wraps around was answered with a
\* response of true while the node was disconnected.
C39_TrueResponseWhileDisconnected ==
    /\ handled.msg.type \in {"GenerateToDescriptor", "SendToDescriptor"}
    /\ running
    /\ handled.pre.client = None /\ handled.pre.wallet_client = None
    /\ Emitted(GenerateResponse(TRUE)) \/ Emitted(SendResponse(TRUE))

\* C40: in every reachable state a present node handle comes with the wallet
\* handle, the address and the auth; and a Connect taken from the mailbox
\* right after a Disconnect was handled (no SetCredentials in between) fails
\* with CredentialMissing.
C40_HandleImpliesCredentials ==
    /\ [](IsSome(client) =>
             IsSome(wallet_client) /\ IsSome(address) /\ IsSome(auth))
    /\ [][(DispatcherStep /\ Head(mailbox).type = "Connect"
              /\ handled.msg.type = "Disconnect") =>
              /\ handled'.res = Err("CredentialMissing")
              /\ client' = None]_vars

\* C40, the part that holds: the handles are stored and dropped together and
\* only a connect() that found both credentials stores them.
C40_HandlesAndCredentialsTogether ==
    IsSome(client) => IsSome(wallet_client) /\ IsSome(address) /\ IsSome(auth)

====
